---- MODULE Spec2Model ----
(***************************************************************************)
(* A model of align/wavSplit.py: the Framer (frame_generator) and the      *)
(* Segmenter (vad_collector).  Both are Python generators; the model runs  *)
(* each of them as a state machine over its local variables.               *)
(*                                                                         *)
(* Floating point: the timestamps and the duration of frame_generator are  *)
(* IEEE 754 doubles, rounded to nearest even after every operation, as      *)
(* Python computes them.  frame_duration_ms / 1000.0 and threshold * maxlen *)
(* are modelled by exact rational arithmetic (on the arguments explored the *)
(* doubles give the same n and the same comparisons); int() of a float is   *)
(* truncation toward zero.                                                  *)
(***************************************************************************)
EXTENDS Integers, Sequences, FiniteSets, TLC

VARIABLES
    \* ---- parameters shared by both generators
    sample_rate,          \* sample_rate argument
    frame_duration_ms,    \* frame_duration_ms argument
    \* ---- vad_collector
    padding_duration_ms,  \* padding_duration_ms argument
    threshold,            \* threshold argument, a rational <<num, den>>
    pc,                   \* "start", "loop", "done", "raised"
    num_padding_frames,   \* int(padding_duration_ms / frame_duration_ms)
    ring_buffer,          \* deque of [frame, speech] entries
    triggered,            \* TRIGGERED / NOTTRIGGERED
    voiced_frames,        \* list of Frame
    frame_index,          \* <<>> while the loop variable is unbound, else <<i>>
    is_speech,            \* verdict of the frame classified last
    segments,             \* the tuples yielded so far, in order
    last_transition,      \* history: <<>>, or <<i>> when triggered last
                          \* changed on the frame with index i
    \* ---- frame_generator
    audio,                \* the PCM bytes
    gen_pc,               \* "start", "running", "yielded", "done", "raised"
    n,                    \* frame length in bytes
    offset,
    timestamp,            \* a double, [m, e]
    duration,             \* a double, [m, e]
    frames                \* the Frames yielded so far, in order

collector_vars == <<padding_duration_ms, threshold, pc, num_padding_frames,
                    ring_buffer, triggered, voiced_frames, frame_index,
                    is_speech, segments, last_transition>>
framer_vars == <<audio, gen_pc, n, offset, timestamp, duration, frames>>
vars == <<sample_rate, frame_duration_ms, collector_vars, framer_vars>>

----------------------------------------------------------------------------
\* Bounds of the model.

\* vad_collector consumes at most MaxFrames frames, and at most MaxFramesLong
\* frames when it runs with one of the long windows (LongPaddings), which
\* need more frames to trigger and detrigger.
MaxFrames == 12
MaxFramesLong == 21

\* frame_generator is run on at most MaxAudioLen bytes of PCM data.
MaxAudioLen == 6
MaxAudioLong == 9

----------------------------------------------------------------------------
\* Arithmetic helpers.

Abs(x) == IF x < 0 THEN -x ELSE x

Max(a, b) == IF a >= b THEN a ELSE b

\* int(a / b) for b # 0: true division, then truncation toward zero.
TruncDiv(a, b) ==
    IF (a >= 0) = (b > 0) THEN Abs(a) \div Abs(b) ELSE -(Abs(a) \div Abs(b))

----------------------------------------------------------------------------
\* Floating point.  A natural number of any size is a sequence of limbs in
\* base 2^15, least significant first, with no zero limb at the top.  A
\* non-negative double is [m |-> mantissa, e |-> exponent], of value
\* m * 2^e with 2^52 <= m < 2^53, or DoubleZero.  The arithmetic on limbs
\* is written as functions, which TLC applies to evaluated arguments.

Base == 2^15
Big == Seq(0..(Base - 1))

BigNorm[a \in Big] ==
    IF a # <<>> /\ a[Len(a)] = 0 THEN BigNorm[SubSeq(a, 1, Len(a) - 1)] ELSE a

\* The limbs of an integer 0 <= x < 2^31.
BigFromInt[x \in Nat] ==
    IF x = 0 THEN <<>> ELSE <<x % Base>> \o BigFromInt[x \div Base]

BigAddCarry[a \in Big, b \in Big, carry \in Nat] ==
    IF a = <<>> /\ b = <<>>
      THEN BigFromInt[carry]
      ELSE LET x == IF a = <<>> THEN 0 ELSE Head(a)
               y == IF b = <<>> THEN 0 ELSE Head(b)
           IN  <<(x + y + carry) % Base>>
                   \o BigAddCarry[IF a = <<>> THEN <<>> ELSE Tail(a),
                                  IF b = <<>> THEN <<>> ELSE Tail(b),
                                  (x + y + carry) \div Base]

BigAdd(a, b) == BigAddCarry[a, b, 0]

BigMulCarry[a \in Big, k \in Nat, carry \in Nat] ==
    IF a = <<>>
      THEN BigFromInt[carry]
      ELSE <<(Head(a) * k + carry) % Base>>
               \o BigMulCarry[Tail(a), k, (Head(a) * k + carry) \div Base]

\* a * k for 0 <= k < Base.
BigMulSmall(a, k) == IF k = 0 THEN <<>> ELSE BigMulCarry[a, k, 0]

\* Long division by 0 < d < Base from the most significant limb down:
\* <<quotient, remainder>>, the quotient not yet normalised.
BigDivRem[a \in Big, d \in Nat, rem \in Nat, quot \in Big] ==
    IF a = <<>>
      THEN <<quot, rem>>
      ELSE BigDivRem[SubSeq(a, 1, Len(a) - 1), d,
                     (rem * Base + a[Len(a)]) % d,
                     <<(rem * Base + a[Len(a)]) \div d>> \o quot]

\* <<a \div d, a % d>>
BigDivSmall(a, d) ==
    <<BigNorm[BigDivRem[a, d, 0, <<>>][1]], BigDivRem[a, d, 0, <<>>][2]>>

\* a < b
BigLess(a, b) ==
    IF Len(a) # Len(b)
      THEN Len(a) < Len(b)
      ELSE \E i \in 1..Len(a) :
              /\ a[i] < b[i]
              /\ \A j \in (i + 1)..Len(a) : a[j] = b[j]

\* a * 2^s
MulPow2[a \in Big, s \in Nat] ==
    IF s = 0 THEN a
    ELSE IF s < 14 THEN BigMulSmall(a, 2^s)
    ELSE MulPow2[BigMulSmall(a, 2^14), s - 14]

Two52 == MulPow2[<<1>>, 52]
Two53 == MulPow2[<<1>>, 53]
Two54 == MulPow2[<<1>>, 54]

DoubleZero == [m |-> <<>>, e |-> 0]

\* The double nearest to a * 2^e, ties to the even mantissa.  sticky says
\* that non-zero bits below a have been dropped already.
RoundBig[a \in Big, e \in Int, sticky \in BOOLEAN] ==
    IF a = <<>> THEN DoubleZero
    ELSE IF BigLess(a, Two52) THEN RoundBig[BigMulSmall(a, 2), e - 1, sticky]
    ELSE IF BigLess(a, Two53) THEN [m |-> a, e |-> e]
    ELSE IF ~BigLess(a, Two54)
      THEN RoundBig[BigDivSmall(a, 2)[1], e + 1, sticky \/ a[1] % 2 = 1]
      ELSE LET half == BigDivSmall(a, 2)[1]
               up == a[1] % 2 = 1 /\ (sticky \/ half[1] % 2 = 1)
               m  == IF up THEN BigAdd(half, <<1>>) ELSE half
           IN  IF m = Two53 THEN [m |-> Two52, e |-> e + 2]
                            ELSE [m |-> m, e |-> e + 1]

\* x + y
DoubleAdd(x, y) ==
    IF x.m = <<>> THEN y
    ELSE IF y.m = <<>> THEN x
    ELSE LET big   == IF x.e >= y.e THEN x ELSE y
             small == IF x.e >= y.e THEN y ELSE x
             shift == big.e - small.e
         IN  IF shift > 60 THEN big
             ELSE RoundBig[BigAdd(MulPow2[big.m, shift], small.m),
                           small.e, FALSE]

\* float(a) / b for integers 0 <= a and 0 < b < Base: the quotient to 70
\* binary places, with a last bit that says whether it is inexact.
DoubleDivInt(a, b) ==
    LET qr == BigDivSmall(MulPow2[BigFromInt[a], 69], b)
    IN  RoundBig[BigAdd(BigMulSmall(qr[1], 2),
                        IF qr[2] = 0 THEN <<>> ELSE <<1>>),
                 -70, FALSE]

\* x / 2.0
DoubleHalf(x) == IF x.m = <<>> THEN x ELSE [m |-> x.m, e |-> x.e - 1]

----------------------------------------------------------------------------
\* vad_collector

\* The k-th Frame of the input (0-based).  Every frame carries bytes of its
\* own, so that a segment's bytes tell which frames it was built from.
InputFrame(k) == [bytes |-> <<k>>]

\* int(padding_duration_ms / frame_duration_ms), frame_duration_ms # 0.
NumPaddingFrames(padding, frame_ms) == TruncDiv(padding, frame_ms)

\* Mutant: a plain list, which never evicts.
RingAppend_unbounded(buf, entry, maxlen) == Append(buf, entry)

\* deque.append on a deque of the given maxlen.
RingAppend(buf, entry, maxlen) ==
    IF maxlen = 0 THEN <<>>
    ELSE IF Len(buf) >= maxlen THEN Append(Tail(buf), entry)
    ELSE Append(buf, entry)

\* len([f for f, speech in ring_buffer if speech])
NumVoiced(buf) == Cardinality({i \in 1..Len(buf) : buf[i].speech})

\* len([f for f, speech in ring_buffer if not speech])
NumUnvoiced(buf) == Cardinality({i \in 1..Len(buf) : ~buf[i].speech})

\* Mutant: >= in place of >.
Exceeds_ge(count, thr, maxlen) == count * thr[2] >= thr[1] * maxlen

\* count > threshold * ring_buffer.maxlen
Exceeds(count, thr, maxlen) == count * thr[2] > thr[1] * maxlen

\* Mutant: the frame that triggered is appended once more.
ExtendWithBuffer_dup(vf, buf) ==
    vf \o [i \in 1..Len(buf) |-> buf[i].frame] \o <<buf[Len(buf)].frame>>

\* Mutant: the ring buffer's frames are not copied.
ExtendWithBuffer_none(vf, buf) == vf

\* for f, s in ring_buffer: voiced_frames.append(f)
ExtendWithBuffer(vf, buf) == vf \o [i \in 1..Len(buf) |-> buf[i].frame]

\* Mutant: the frames are joined last to first.
RECURSIVE JoinBytes_reversed(_)
JoinBytes_reversed(fs) ==
    IF fs = <<>> THEN <<>> ELSE JoinBytes_reversed(Tail(fs)) \o Head(fs).bytes

\* b''.join([f.bytes for f in voiced_frames])
RECURSIVE JoinBytes(_)
JoinBytes(fs) ==
    IF fs = <<>> THEN <<>> ELSE Head(fs).bytes \o JoinBytes(Tail(fs))

\* Mutant: the start offset without max(0, ...).
DetriggerSegment_unclamped(frame_ms, index, vf) ==
    [bytes    |-> JoinBytes(vf),
     start_ms |-> frame_ms * (index - Len(vf)),
     end_ms   |-> frame_ms * index]

\* Mutant: the end offset counts the current frame.
DetriggerSegment_endinclusive(frame_ms, index, vf) ==
    [bytes    |-> JoinBytes(vf),
     start_ms |-> frame_ms * Max(0, index - Len(vf)),
     end_ms   |-> frame_ms * (index + 1)]

\* The tuple yielded at a detrigger.
DetriggerSegment(frame_ms, index, vf) ==
    [bytes    |-> JoinBytes(vf),
     start_ms |-> frame_ms * Max(0, index - Len(vf)),
     end_ms   |-> frame_ms * index]

\* Mutant: the flush leaves out the first accumulated frame.
FlushSegment_dropfirst(frame_ms, index, vf) ==
    [bytes    |-> JoinBytes(Tail(vf)),
     start_ms |-> frame_ms * (index - Len(vf)),
     end_ms   |-> frame_ms * (index + 1)]

\* The tuple yielded after the loop.
FlushSegment(frame_ms, index, vf) ==
    [bytes    |-> JoinBytes(vf),
     start_ms |-> frame_ms * (index - Len(vf)),
     end_ms   |-> frame_ms * (index + 1)]

\* Mutant: the flush without its test.
HasLeftover_always(vf) == TRUE

\* if voiced_frames:
HasLeftover(vf) == vf # <<>>

\* Mutant: the ring buffer is left as it is.
Cleared_keep(buf) == buf

\* ring_buffer.clear()
Cleared(buf) == <<>>

\* enumerate(frames): the index bound by the next iteration.
NextIndex == IF frame_index = <<>> THEN 0 ELSE frame_index[1] + 1

\* The arguments vad_collector is run with.  vad_segment_generator passes
\* 30 ms frames, 300 ms of padding and a threshold of 0.5.
CollectorFrameDurations == {0, 30}
CollectorPaddings == {-30, -10, 0, 30, 60, 90}
CollectorThresholds == {<<1, 2>>, <<9, 10>>}
LongPaddings == {270, 300}
CollectorArguments ==
    (CollectorFrameDurations \X CollectorPaddings \X CollectorThresholds)
        \cup ({30} \X LongPaddings \X {<<1, 2>>})

\* The longest input explored for the arguments of this run.
StreamBound ==
    IF padding_duration_ms \in LongPaddings THEN MaxFramesLong ELSE MaxFrames

\* The first resumption of the generator: everything before the loop.
\* padding / 0 raises ZeroDivisionError, deque(maxlen < 0) raises ValueError.
CollectorStart ==
    /\ pc = "start"
    /\ IF frame_duration_ms = 0
         THEN /\ pc' = "raised"
              /\ UNCHANGED num_padding_frames
         ELSE /\ num_padding_frames' =
                    NumPaddingFrames(padding_duration_ms, frame_duration_ms)
              /\ pc' = IF num_padding_frames' < 0 THEN "raised" ELSE "loop"
    /\ UNCHANGED <<sample_rate, frame_duration_ms, padding_duration_ms,
                   threshold, ring_buffer, triggered, voiced_frames,
                   frame_index, is_speech, segments, last_transition,
                   framer_vars>>

\* One iteration of the loop in the NOTTRIGGERED state.
FrameNotTriggered ==
    /\ pc = "loop"
    /\ ~triggered
    /\ NextIndex < StreamBound
    /\ \E speech \in BOOLEAN :
        LET frame == InputFrame(NextIndex)
            buf   == RingAppend(ring_buffer, [frame |-> frame, speech |-> speech],
                                num_padding_frames)
        IN  /\ frame_index' = <<NextIndex>>
            /\ is_speech' = speech
            /\ IF Exceeds(NumVoiced(buf), threshold, num_padding_frames)
                 THEN /\ triggered' = TRUE
                      /\ voiced_frames' = ExtendWithBuffer(voiced_frames, buf)
                      /\ ring_buffer' = Cleared(buf)
                      /\ last_transition' = <<NextIndex>>
                 ELSE /\ triggered' = FALSE
                      /\ voiced_frames' = voiced_frames
                      /\ ring_buffer' = buf
                      /\ last_transition' = last_transition
    /\ UNCHANGED <<sample_rate, frame_duration_ms, padding_duration_ms,
                   threshold, pc, num_padding_frames, segments, framer_vars>>

\* One iteration of the loop in the TRIGGERED state, the yield included.
FrameTriggered ==
    /\ pc = "loop"
    /\ triggered
    /\ NextIndex < StreamBound
    /\ \E speech \in BOOLEAN :
        LET frame == InputFrame(NextIndex)
            vf    == Append(voiced_frames, frame)
            buf   == RingAppend(ring_buffer, [frame |-> frame, speech |-> speech],
                                num_padding_frames)
        IN  /\ frame_index' = <<NextIndex>>
            /\ is_speech' = speech
            /\ IF Exceeds(NumUnvoiced(buf), threshold, num_padding_frames)
                 THEN /\ triggered' = FALSE
                      /\ segments' = Append(segments,
                             DetriggerSegment(frame_duration_ms, NextIndex, vf))
                      /\ ring_buffer' = Cleared(buf)
                      /\ voiced_frames' = <<>>
                      /\ last_transition' = <<NextIndex>>
                 ELSE /\ triggered' = TRUE
                      /\ segments' = segments
                      /\ ring_buffer' = buf
                      /\ voiced_frames' = vf
                      /\ last_transition' = last_transition
    /\ UNCHANGED <<sample_rate, frame_duration_ms, padding_duration_ms,
                   threshold, pc, num_padding_frames, framer_vars>>

\* Mutant: the failure is caught and the frames accumulated so far are
\* yielded as a last segment.
ClassifierRaises_flush ==
    /\ pc = "loop"
    /\ NextIndex < StreamBound
    /\ frame_index' = <<NextIndex>>
    /\ pc' = "raised"
    /\ segments' =
          IF voiced_frames # <<>>
            THEN Append(segments,
                     FlushSegment(frame_duration_ms, NextIndex, voiced_frames))
            ELSE segments
    /\ UNCHANGED <<sample_rate, frame_duration_ms, padding_duration_ms,
                   threshold, num_padding_frames, ring_buffer, triggered,
                   voiced_frames, is_speech, last_transition, framer_vars>>

\* vad.is_speech raises on the next frame: nothing catches it.
ClassifierRaises ==
    /\ pc = "loop"
    /\ NextIndex < StreamBound
    /\ frame_index' = <<NextIndex>>
    /\ pc' = "raised"
    /\ UNCHANGED <<sample_rate, frame_duration_ms, padding_duration_ms,
                   threshold, num_padding_frames, ring_buffer, triggered,
                   voiced_frames, is_speech, segments, last_transition,
                   framer_vars>>

\* Mutant: the flush computes its offsets from frame_index before it tests
\* voiced_frames.
EndOfStream_eager ==
    /\ pc = "loop"
    /\ IF frame_index = <<>>
         THEN /\ pc' = "raised"
              /\ segments' = segments
         ELSE /\ pc' = "done"
              /\ segments' =
                    IF HasLeftover(voiced_frames)
                      THEN Append(segments,
                               FlushSegment(frame_duration_ms, frame_index[1],
                                            voiced_frames))
                      ELSE segments
    /\ UNCHANGED <<sample_rate, frame_duration_ms, padding_duration_ms,
                   threshold, num_padding_frames, ring_buffer, triggered,
                   voiced_frames, frame_index, is_speech, last_transition,
                   framer_vars>>

\* The input is exhausted: the code after the loop.  Reading frame_index
\* while it is unbound raises NameError.
EndOfStream ==
    /\ pc = "loop"
    /\ IF HasLeftover(voiced_frames)
         THEN IF frame_index = <<>>
                THEN /\ pc' = "raised"
                     /\ segments' = segments
                ELSE /\ pc' = "done"
                     /\ segments' = Append(segments,
                            FlushSegment(frame_duration_ms, frame_index[1],
                                         voiced_frames))
         ELSE /\ pc' = "done"
              /\ segments' = segments
    /\ UNCHANGED <<sample_rate, frame_duration_ms, padding_duration_ms,
                   threshold, num_padding_frames, ring_buffer, triggered,
                   voiced_frames, frame_index, is_speech, last_transition,
                   framer_vars>>

----------------------------------------------------------------------------
\* frame_generator

\* n = int(sample_rate * (frame_duration_ms / 1000.0) * 2)
FrameLength(rate, frame_ms) == TruncDiv(rate * frame_ms * 2, 1000)

\* duration = (float(n) / sample_rate) / 2.0, sample_rate # 0
FrameDuration(len, rate) == DoubleHalf(DoubleDivInt(len, rate))

\* Mutant: <= in place of <.
LoopCond_le(off, len, total) == off + len <= total

\* while offset + n < len(audio)
LoopCond(off, len, total) == off + len < total

\* audio[offset:offset + n], for 0 <= offset and 0 <= n
Slice(bytes, off, len) ==
    SubSeq(bytes, off + 1, IF off + len <= Len(bytes) THEN off + len
                                                      ELSE Len(bytes))

\* Mutant: the offset advances one byte too far.
NextOffset_skip(off, len) == off + len + 1

\* offset += n
NextOffset(off, len) == off + len

\* timestamp += duration
NextTimestamp(ts, dur) == DoubleAdd(ts, dur)

\* The frames the consumer has received.  A generator that never stops
\* yields without end; the model keeps the first YieldCap frames, which is
\* every frame of a run with n > 0.
YieldCap == MaxAudioLong
Received(fs, frame) == IF Len(fs) < YieldCap THEN Append(fs, frame) ELSE fs

\* The first resumption: the code before the loop.  float(n) / 0 raises
\* ZeroDivisionError.
FramerStart ==
    /\ gen_pc = "start"
    /\ n' = FrameLength(sample_rate, frame_duration_ms)
    /\ offset' = 0
    /\ IF sample_rate = 0
         THEN /\ gen_pc' = "raised"
              /\ UNCHANGED <<timestamp, duration>>
         ELSE /\ gen_pc' = "running"
              /\ timestamp' = DoubleZero
              /\ duration' = FrameDuration(n', sample_rate)
    /\ UNCHANGED <<sample_rate, frame_duration_ms, audio, frames,
                   collector_vars>>

\* The loop test, and the yield of the next Frame when it passes.
FramerYield ==
    /\ gen_pc = "running"
    /\ IF LoopCond(offset, n, Len(audio))
         THEN /\ gen_pc' = "yielded"
              /\ frames' = Received(frames,
                               [bytes     |-> Slice(audio, offset, n),
                                timestamp |-> timestamp,
                                duration  |-> duration])
         ELSE /\ gen_pc' = "done"
              /\ frames' = frames
    /\ UNCHANGED <<sample_rate, frame_duration_ms, audio, n, offset,
                   timestamp, duration, collector_vars>>

\* The consumer asks for the next frame: the loop body after the yield.
FramerResume ==
    /\ gen_pc = "yielded"
    /\ timestamp' = NextTimestamp(timestamp, duration)
    /\ offset' = NextOffset(offset, n)
    /\ gen_pc' = "running"
    /\ UNCHANGED <<sample_rate, frame_duration_ms, audio, n, duration,
                   frames, collector_vars>>

\* The arguments frame_generator is run with.
Bytes == {0, 1}
FramerSampleRates == {0, 100, 500, 750, 1000}
FramerFrameDurations == {0, 1, 2, 3}
\* Every audio up to MaxAudioLen bytes, and one audio of each greater length
\* up to MaxAudioLong, long enough for the rounding of the timestamps to show.
LongAudios == {[i \in 1..len |-> i % 2] : len \in (MaxAudioLen + 1)..MaxAudioLong}
Audios == UNION {[1..len -> Bytes] : len \in 0..MaxAudioLen} \cup LongAudios

CollectorIdle ==
    /\ padding_duration_ms = 300
    /\ threshold = <<1, 2>>
    /\ pc = "done"
    /\ num_padding_frames = 0
    /\ ring_buffer = <<>>
    /\ triggered = FALSE
    /\ voiced_frames = <<>>
    /\ frame_index = <<>>
    /\ is_speech = FALSE
    /\ segments = <<>>
    /\ last_transition = <<>>

InitFramer ==
    /\ sample_rate \in FramerSampleRates
    /\ frame_duration_ms \in FramerFrameDurations
    /\ audio \in Audios
    /\ gen_pc = "start"
    /\ n = 0
    /\ offset = 0
    /\ timestamp = DoubleZero
    /\ duration = DoubleZero
    /\ frames = <<>>
    /\ CollectorIdle

NextFramer ==
    \/ FramerStart
    \/ FramerYield
    \/ FramerResume

\* The consumer (the for loop of vad_collector) keeps asking for frames until
\* the generator is exhausted.
SpecFramer == InitFramer /\ [][NextFramer]_vars /\ WF_vars(NextFramer)

FramerIdle ==
    /\ audio = <<>>
    /\ gen_pc = "done"
    /\ n = 0
    /\ offset = 0
    /\ timestamp = DoubleZero
    /\ duration = DoubleZero
    /\ frames = <<>>

Init ==
    /\ sample_rate = 16000
    /\ \E args \in CollectorArguments :
          /\ frame_duration_ms = args[1]
          /\ padding_duration_ms = args[2]
          /\ threshold = args[3]
    /\ pc = "start"
    /\ num_padding_frames = 0
    /\ ring_buffer = <<>>
    /\ triggered = FALSE
    /\ voiced_frames = <<>>
    /\ frame_index = <<>>
    /\ is_speech = FALSE
    /\ segments = <<>>
    /\ last_transition = <<>>
    /\ FramerIdle

Next ==
    \/ CollectorStart
    \/ FrameNotTriggered
    \/ FrameTriggered
    \/ ClassifierRaises
    \/ EndOfStream

Spec == Init /\ [][Next]_vars

----------------------------------------------------------------------------
\* Properties of vad_collector.

Min(a, b) == IF a <= b THEN a ELSE b

\* The last m entries of s (all of s when it is shorter).
LastEntries(s, m) == SubSeq(s, Len(s) - Min(m, Len(s)) + 1, Len(s))

\* A step that processed one frame to the end of the loop body.
FrameStep == pc = "loop" /\ pc' = "loop" /\ frame_index' # frame_index

\* The ring-buffer entry of the frame a FrameStep processed.
StepEntry == [frame |-> InputFrame(frame_index'[1]), speech |-> is_speech']

\* The ring buffer's window right after the push of a FrameStep.
PushedWindow == LastEntries(Append(ring_buffer, StepEntry), num_padding_frames)

DetriggerStep == FrameStep /\ triggered /\ ~triggered'

FlushStep == pc = "loop" /\ pc' = "done" /\ voiced_frames # <<>>

C2_DetriggerSegmentBounds ==
    [][DetriggerStep =>
        LET i == frame_index'[1]
            k == Len(voiced_frames) + 1
            seg == segments'[Len(segments')]
        IN  /\ Len(segments') = Len(segments) + 1
            /\ seg.start_ms = frame_duration_ms * (IF i - k > 0 THEN i - k ELSE 0)
            /\ seg.end_ms = frame_duration_ms * i
      ]_vars

\* Reached: the detrigger at frame 20 with 15 frames accumulated and 30 ms
\* frames has just yielded a segment with start_ms = 150 and end_ms = 600.
C2_Witness ==
    /\ pc = "loop" /\ ~triggered
    /\ frame_duration_ms = 30
    /\ frame_index = <<20>>
    /\ segments # <<>>
    /\ LET seg == segments[Len(segments)]
       IN  Len(seg.bytes) = 15 /\ seg.start_ms = 150 /\ seg.end_ms = 600

\* C3: when the input ends in TRIGGERED, exactly one more segment is yielded,
\* and its bytes are the frames accumulated since the trigger, each once and
\* in order: a run of consecutive frames that ends with the last frame.
C3_FlushYieldsAccumulatedFrames ==
    [][(pc = "loop" /\ triggered /\ pc' \in {"done", "raised"}
            /\ frame_index' = frame_index) =>
        LET k == Len(voiced_frames)
            last == frame_index[1]
            seg == segments'[Len(segments')]
        IN  /\ pc' = "done"
            /\ Len(segments') = Len(segments) + 1
            /\ SubSeq(segments', 1, Len(segments)) = segments
            /\ k >= 1
            /\ voiced_frames = [j \in 1..k |-> InputFrame(last - k + j)]
            /\ seg.bytes = [j \in 1..k |-> last - k + j]
      ]_vars

\* Reached: the input ended in TRIGGERED after an earlier detrigger, and the
\* flush yielded a segment of several frames.
C3_Witness ==
    /\ pc = "done" /\ triggered
    /\ Len(segments) >= 2
    /\ Len(segments[Len(segments)].bytes) >= 3

\* C4: every step yields one segment if it is a detrigger or the flush of a
\* non-empty voiced_frames, and none otherwise; the segments yielded before
\* stay as they were.
C4_SegmentsOnlyAtDetriggerOrFlush ==
    [][/\ Len(segments') =
            Len(segments) + (IF DetriggerStep \/ FlushStep THEN 1 ELSE 0)
       /\ SubSeq(segments', 1, Len(segments)) = segments
      ]_vars

\* Reached: a run with two detriggers and no flush ended with two segments.
C4_Witness ==
    /\ pc = "done" /\ ~triggered
    /\ Len(segments) = 2

\* C5: on an empty frame sequence (with positive durations) vad_collector
\* ends normally with no segment yielded.
C5_EmptyInput ==
    (/\ frame_index = <<>>
     /\ pc \notin {"start", "loop"}
     /\ frame_duration_ms > 0
     /\ padding_duration_ms > 0)
        => (pc = "done" /\ segments = <<>>)

\* Reached: the run on the empty input has ended.
C5_Witness ==
    /\ pc = "done" /\ frame_index = <<>>
    /\ frame_duration_ms > 0
    /\ padding_duration_ms > 0

\* C6: the ring buffer never holds more than
\* int(padding_duration_ms / frame_duration_ms) entries; a push on a full
\* buffer drops the oldest entry and keeps the others in order, a push on a
\* buffer that is not full drops nothing.
C6_RingBufferBounded ==
    /\ [](pc = "loop" =>
            /\ num_padding_frames =
                 TruncDiv(padding_duration_ms, frame_duration_ms)
            /\ Len(ring_buffer) <= num_padding_frames)
    /\ [][(FrameStep /\ triggered' = triggered /\ num_padding_frames > 0) =>
            ring_buffer' =
              IF Len(ring_buffer) = num_padding_frames
                THEN SubSeq(ring_buffer, 2, Len(ring_buffer)) \o <<StepEntry>>
                ELSE ring_buffer \o <<StepEntry>>
         ]_vars

\* Reached: a full ring buffer whose oldest entries have been evicted.
C6_Witness ==
    /\ pc = "loop" /\ ~triggered /\ segments = <<>>
    /\ num_padding_frames >= 2
    /\ Len(ring_buffer) = num_padding_frames
    /\ ring_buffer[1].frame # InputFrame(0)

----------------------------------------------------------------------------
\* Properties of frame_generator.

\* The offsets 0, n, 2n, ... that pass the loop test on an input of total
\* bytes.
PassingOffsets(len, total) == {k \in 0..total : k * len + len < total}

\* C7: with n > 0, a finished run has yielded as many frames as there are
\* offsets 0, n, 2n, ... with offset + n < L: L \div n frames when n does
\* not divide L (the partial tail is dropped), and L \div n - 1 frames when
\* L is a positive multiple of n (the last full frame is dropped too).
C7_FrameCount ==
    (gen_pc = "done" /\ n > 0) =>
        LET total == Len(audio)
        IN  /\ Len(frames) = Cardinality(PassingOffsets(n, total))
            /\ total % n # 0 => Len(frames) = total \div n
            /\ (total > 0 /\ total % n = 0) => Len(frames) = total \div n - 1
            /\ total = 0 => Len(frames) = 0

\* Reached: a finished run on three full frames' worth of bytes, which
\* yielded two frames.
C7_Witness ==
    /\ gen_pc = "done" /\ n >= 2
    /\ Len(audio) = 3 * n
    /\ Len(frames) = 2

\* C8: with n > 0, the k-th frame yielded (0-based) is the bytes
\* [k*n, (k+1)*n) of the input, all of them inside the input, so that frames
\* neither overlap nor repeat, and the frames joined in order are a prefix
\* of the input.
C8_FramesTileInput ==
    n > 0 =>
        /\ \A k \in 1..Len(frames) :
              /\ k * n <= Len(audio)
              /\ frames[k].bytes = [j \in 1..n |-> audio[(k - 1) * n + j]]
        /\ JoinBytes(frames) = SubSeq(audio, 1, Len(frames) * n)

\* Reached: a finished run on five bytes that yielded two different frames
\* of two bytes each and dropped the last byte.
C8_Witness ==
    /\ gen_pc = "done" /\ n = 2
    /\ Len(audio) = 5
    /\ Len(frames) = 2
    /\ frames[1].bytes # frames[2].bytes

\* C9: with sample_rate > 0 and frame_duration_ms > 0 the generator
\* eventually stops yielding, also when n rounds down to 0.
C9_GeneratorStops ==
    (sample_rate > 0 /\ frame_duration_ms > 0) ~> (gen_pc = "done")

\* C10: with a non-positive frame duration, padding duration or sample rate
\* no frame is yielded by frame_generator and none is classified or
\* accumulated by vad_collector.
C10_BadArgumentsRejected ==
    (sample_rate <= 0 \/ frame_duration_ms <= 0 \/ padding_duration_ms <= 0)
        => (frames = <<>> /\ frame_index = <<>> /\ voiced_frames = <<>>)

----------------------------------------------------------------------------
\* Further properties of vad_collector.

\* The indices of the input frames a segment's bytes come from.
FrameIds(fs) == [j \in 1..Len(fs) |-> fs[j].bytes[1]]

\* The input frames held in voiced_frames or yielded in a segment.
HeldOrEmitted(vf, segs) ==
    {vf[j].bytes[1] : j \in 1..Len(vf)}
        \cup UNION {{segs[j].bytes[b] : b \in 1..Len(segs[j].bytes)} :
                        j \in 1..Len(segs)}

\* C11: when the classifier fails on a frame, the run ends there: that step
\* yields nothing and leaves the accumulated frames where they are, and no
\* later step classifies a frame or yields a segment.
C11_ClassifierFailureAborts ==
    [][/\ (pc = "loop" /\ pc' = "raised" /\ frame_index' # frame_index) =>
            /\ segments' = segments
            /\ voiced_frames' = voiced_frames
            /\ is_speech' = is_speech
       /\ pc = "raised" => vars' = vars
      ]_vars

\* Reached: the classifier failed in TRIGGERED, with frames accumulated, after
\* an earlier segment had been yielded.
C11_Witness ==
    /\ pc = "raised" /\ frame_index # <<>>
    /\ voiced_frames # <<>>
    /\ Len(segments) = 1

\* k * x for an integer 0 <= k < Base, as the float product rounds it.
DoubleMulInt(k, x) == RoundBig[BigMulSmall(x.m, k), x.e, FALSE]

\* x = k * y as real numbers, nothing rounded.
ExactMultiple(x, k, y) ==
    LET low == Min(x.e, y.e)
    IN  MulPow2[x.m, x.e - low] = MulPow2[BigMulSmall(y.m, k), y.e - low]

\* C13: in one run of frame_generator the k-th frame (0-based) has the
\* timestamp k * duration, whether the product is taken in floating point
\* or exactly, the first timestamp is 0, and every frame carries the same
\* duration n / sample_rate / 2.
C13_TimestampIsIndexTimesDuration ==
    LET d == FrameDuration(n, sample_rate)
    IN  \A k \in 1..Len(frames) :
            /\ frames[k].duration = d
            /\ k = 1 => frames[k].timestamp = DoubleZero
            /\ \/ frames[k].timestamp = DoubleMulInt(k - 1, d)
               \/ ExactMultiple(frames[k].timestamp, k - 1, d)

\* C14: on a trigger, voiced_frames becomes the frames of the ring buffer
\* after the push, in buffer order; the frame that triggered is its last
\* element and occurs once; the ring buffer is empty afterwards.
C14_TriggerCopiesWindow ==
    [][(FrameStep /\ ~triggered /\ triggered') =>
        LET current == InputFrame(frame_index'[1])
        IN  /\ voiced_frames' =
                  [j \in 1..Len(PushedWindow) |-> PushedWindow[j].frame]
            /\ voiced_frames'[Len(voiced_frames')] = current
            /\ Cardinality({j \in 1..Len(voiced_frames') :
                                voiced_frames'[j] = current}) = 1
            /\ ring_buffer' = <<>>
      ]_vars

\* Reached: right after a trigger on a window of three frames or more that
\* does not start at the first frame.
C14_Witness ==
    /\ pc = "loop" /\ triggered
    /\ ring_buffer = <<>>
    /\ Len(voiced_frames) >= 3
    /\ voiced_frames[1] # InputFrame(0)

\* The arguments vad_segment_generator passes: a window of 10 frames.
OrchestrationArguments ==
    /\ frame_duration_ms = 30
    /\ padding_duration_ms = 300
    /\ threshold = <<1, 2>>

\* C15: with 30 ms frames, 300 ms of padding and a threshold of 0.5, a
\* transition happens only with at least 6 frames of the opposite verdict in
\* the ring buffer, all of them pushed since the last transition, so at least
\* 6 frames are processed from one transition (or the start) to the next.
C15_SixFramesBetweenTransitions ==
    [][(OrchestrationArguments /\ FrameStep /\ triggered' # triggered) =>
        LET first == IF last_transition = <<>> THEN 0
                                               ELSE last_transition[1] + 1
            opposite == {j \in 1..Len(PushedWindow) :
                            /\ PushedWindow[j].speech = ~triggered
                            /\ PushedWindow[j].frame.bytes[1] >= first}
        IN  /\ Cardinality(opposite) >= 6
            /\ frame_index'[1] - first + 1 >= 6
      ]_vars

\* Reached: the earliest trigger (frame 5) followed by the earliest
\* detrigger (frame 11).
C15_Witness ==
    /\ OrchestrationArguments
    /\ pc = "loop" /\ ~triggered
    /\ Len(segments) = 1
    /\ last_transition = <<11>>

\* C16: every segment yielded has 0 <= start_ms < end_ms.
C16_SegmentOffsetsOrdered ==
    frame_duration_ms > 0 =>
        \A j \in 1..Len(segments) :
            /\ 0 <= segments[j].start_ms
            /\ segments[j].start_ms < segments[j].end_ms

\* C17: a segment built from the input frames a..b has
\* start_ms = frame_duration_ms * a and end_ms = frame_duration_ms * (b + 1).
C17_OffsetsMatchFrames ==
    \A j \in 1..Len(segments) :
        LET ids == segments[j].bytes
            a == ids[1]
            b == ids[Len(ids)]
        IN  /\ segments[j].start_ms = frame_duration_ms * a
            /\ segments[j].end_ms = frame_duration_ms * (b + 1)
            /\ segments[j].end_ms - segments[j].start_ms
                   = frame_duration_ms * Len(ids)

\* C18: every segment is a non-empty run of consecutive input frames in
\* order; each segment lies wholly after the one before it; a frame held in
\* voiced_frames or yielded stays held or yielded; and when the input has
\* ended, the frames left in voiced_frames are the last segment.
C18_SegmentsPartitionVoicedFrames ==
    /\ [](/\ \A j \in 1..Len(segments) :
                LET ids == segments[j].bytes
                IN  /\ ids # <<>>
                    /\ \A b \in 1..Len(ids) : ids[b] = ids[1] + b - 1
                    /\ ids[1] >= 0
                    /\ pc # "start" => ids[Len(ids)] <= frame_index[1]
          /\ \A j \in 1..Len(segments) - 1 :
                segments[j].bytes[Len(segments[j].bytes)]
                    < segments[j + 1].bytes[1]
          /\ (pc = "done" /\ voiced_frames # <<>>) =>
                /\ segments # <<>>
                /\ segments[Len(segments)].bytes = FrameIds(voiced_frames))
    /\ [][HeldOrEmitted(voiced_frames, segments)
              \subseteq HeldOrEmitted(voiced_frames', segments')]_vars

\* Reached: a finished run that yielded two segments at detriggers and a
\* third at the flush.
C18_Witness ==
    /\ pc = "done" /\ triggered
    /\ Len(segments) = 3

\* C19: voiced_frames is non-empty exactly while the machine is TRIGGERED,
\* and the code after the loop yields a segment exactly when the input ends
\* in TRIGGERED.
C19_VoicedFramesIffTriggered ==
    /\ []((voiced_frames # <<>>) <=> triggered)
    /\ [][(pc = "loop" /\ pc' = "done") =>
            Len(segments') = Len(segments) + (IF triggered THEN 1 ELSE 0)
         ]_vars

\* Reached: the input ended in NOT_TRIGGERED with frames in the ring buffer,
\* after one segment.
C19_Witness ==
    /\ pc = "done" /\ ~triggered
    /\ Len(segments) = 1
    /\ ring_buffer # <<>>

\* C20: with frame_duration_ms > 0, each segment ends no later than the
\* next one starts.
C20_SegmentsDoNotOverlap ==
    frame_duration_ms > 0 =>
        \A j \in 1..Len(segments) - 1 :
            segments[j].end_ms <= segments[j + 1].start_ms

\* Reached: a flush segment that starts exactly where the segment before it
\* ends.
C20_Witness ==
    /\ pc = "done" /\ triggered
    /\ Len(segments) = 2
    /\ segments[1].end_ms = segments[2].start_ms

====
